---- MODULE Spec2Model ----
(***************************************************************************)
(* State machine of the SchlossGame server (server.js): the process-wide   *)
(* room table, the per-room turn timer and the socket event handlers       *)
(* createRoom, joinRoom, setSecret, guess, skipTurn and disconnect.        *)
(* Every handler runs to completion (Node's single-threaded event loop),   *)
(* so each handler and each timeout callback is one atomic action.         *)
(***************************************************************************)
EXTENDS Integers, Sequences, FiniteSets, TLC

\* ---------------------------------------------------------------- bounds

\* Pending timeouts whose handle no room object holds any more (per room id).
MaxStray == 1
\* Saturation of the per-room counters of emitted gameStarted / gameOver.
MaxCount == 2

\* ------------------------------------------------------------ value sets

\* socket.id of the connections: two players and a third party.
Sockets == {1, 2, 3}
\* Results generateRoomId can return (it draws at random, collisions included).
RoomIds == {"AAAA"}
\* The name field of a payload.
Names == {"n"}
\* codeLength of a createRoom payload; 0 stands for a missing or falsy one.
CodeLengthInputs == {0, 1}
\* Characters of the strings clients send; Digits are matched by \d.
Digits == {"4", "5", "6"}
\* Strings clients send as the secret of setSecret, as sequences of characters:
\* empty, too short, too long, not all digits, and well-formed ones.
SecretValues ==
  { <<>>, <<"4">>, <<"4", "5">>, <<"4", "5", "a">>, <<"4", "5", "6", "4">>,
    <<"4", "5", "6">>, <<"4", "5", "5">> }
\* Strings clients send as the value of guess.
GuessValues ==
  { <<>>, <<"4">>, <<"5">>, <<"a">>, <<"4", "5", "a">>, <<"4", "5", "6", "4">>,
    <<"4", "5", "6">>, <<"4", "5", "5">>, <<"6", "5", "4">> }

\* null as the value of winner (socket ids are positive).
Null == 0
\* room.turnTimer: null, a handle still pending ("pending"), or a handle whose
\* timeout has fired ("fired": still truthy, clearTimeout on it does nothing).
TimerStates == {"null", "pending", "fired"}

VARIABLES
  rooms,      \* the room table: a function from the registered room ids to room objects
  stray,      \* stray[roomId]: pending timeouts for roomId that no room holds
  closed,     \* the socket ids whose connection has ended (disconnect has run)
  out,        \* the events emitted by the last step, in order: socket.emit
              \* events carry the receiving socket (room ""), io.to(roomId)
              \* events carry the room id (socket 0)
  emitted,    \* emitted[roomId]: gameStarted / gameOver emitted for the room object
  faulted,    \* a handler threw (uncaught TypeError)
  handler     \* the event whose handler (or the timeout callback) ran last

vars == <<rooms, stray, closed, out, emitted, faulted, handler>>

\* ------------------------------------------------------- pure helpers

\* /^\d+$/.test(s)
AllDigits(s) == Len(s) >= 1 /\ \A i \in 1..Len(s) : s[i] \in Digits

\* codeLength || 3
DefaultCodeLength == 3
CodeLengthOf(codeLength) == IF codeLength = 0 THEN DefaultCodeLength ELSE codeLength

\* Object.keys(room.players)
PlayerIds(room) == DOMAIN room.players

\* Lobby / Active / Finished as derived from started and winner.
Phase(room) ==
  IF ~room.started THEN "Lobby"
  ELSE IF room.winner = Null THEN "Active" ELSE "Finished"

NewPlayer(name) == [name |-> name, secret |-> <<>>, ready |-> FALSE]

\* obj[key] = val (key added, or its value replaced when present)
Put(obj, key, val) ==
  [x \in (DOMAIN obj) \cup {key} |-> IF x = key THEN val ELSE obj[x]]

\* delete obj[key]
Delete(obj, key) == [x \in (DOMAIN obj) \ {key} |-> obj[x]]

\* armedFor is no field of the room object: it records turnOrder[0] at the
\* time the timeout held in turnTimer was scheduled (Null when none is pending).
NewRoom(s, name, codeLength) ==
  [ players    |-> Put(<<>>, s, NewPlayer(name)),
    codeLength |-> CodeLengthOf(codeLength),
    started    |-> FALSE,
    turnOrder  |-> <<>>,
    winner     |-> Null,
    turnTimer  |-> "null",
    armedFor   |-> Null ]

\* secret.length === room.codeLength && /^\d+$/.test(secret)
WellFormed(s, codeLength) == Len(s) = codeLength /\ AllDigits(s)

\* Object.values(players).length === 2 && every(p => p.ready)
AllReady(players) ==
  /\ Cardinality(DOMAIN players) = 2
  /\ \A x \in DOMAIN players : players[x].ready

\* The two orders Math.random() < 0.5 chooses between.
TurnOrders(ids) == {<<a, b>> : a \in ids, b \in ids} \ {<<a, a>> : a \in ids}

\* The turn order is left as it is.
NotSwapped(turnOrder) == turnOrder

\* [turnOrder[1], turnOrder[0]]
Swapped(turnOrder) == <<turnOrder[2], turnOrder[1]>>

\* turnOrder.indexOf(id) === 0 / turnOrder[0] === id
IsFirst(turnOrder, id) == Len(turnOrder) >= 1 /\ turnOrder[1] = id

\* The loop of the guess handler: positions i < codeLength with
\* value[i] === secret[i] (secret[i] is undefined beyond its length).
RECURSIVE CountCorrect(_, _, _)
CountCorrect(value, secret, n) ==
  IF n = 0 THEN 0
  ELSE CountCorrect(value, secret, n - 1)
         + (IF n <= Len(secret) /\ n <= Len(value) /\ value[n] = secret[n]
            THEN 1 ELSE 0)

\* startTurnTimer on a registered room: the held handle is cleared and a
\* new timeout is scheduled and held.
StartTurnTimer(room) ==
  [room EXCEPT !.turnTimer = "pending", !.armedFor = room.turnOrder[1]]

\* clearTurnTimer on a registered room.
ClearTurnTimer(room) ==
  IF room.turnTimer # "null"
  THEN [room EXCEPT !.turnTimer = "null", !.armedFor = Null]
  ELSE room

\* The pending timeouts a room object leaves behind when it is dropped from
\* the room table: the one its turnTimer still holds.
Leftover(room) == IF room.turnTimer = "pending" THEN 1 ELSE 0

\* The room counts as full only with more than two players.
IsFullAboveTwo(room) == Cardinality(PlayerIds(room)) > 2

\* Object.keys(room.players).length >= 2
IsFull(room) == Cardinality(PlayerIds(room)) >= 2

\* allReady alone: a setSecret in a started room starts the game again.
ShouldStartAgain(allReady, room) == allReady

\* allReady && !room.started
ShouldStart(allReady, room) == allReady /\ ~room.started

\* The error broadcast to the room instead of sent to the caller.
NotYourTurnToRoom(s, roomId) ==
  << [type |-> "errorMessage", socket |-> 0, room |-> roomId,
      message |-> "Du bist nicht am Zug."] >>

\* socket.emit("errorMessage", ...) of the guess handler: to the caller only.
NotYourTurn(s, roomId) ==
  << [type |-> "errorMessage", socket |-> s, room |-> "",
      message |-> "Du bist nicht am Zug."] >>

NoEmitted == [gameStarted |-> 0, gameOver |-> 0]

Bump(n) == IF n < MaxCount THEN n + 1 ELSE n

\* ------------------------------------------------------------- actions

Init ==
  /\ rooms = <<>>
  /\ stray = [r \in RoomIds |-> 0]
  /\ closed = {}
  /\ out = <<>>
  /\ emitted = [r \in RoomIds |-> NoEmitted]
  /\ faulted = FALSE
  /\ handler = ""

\* Each handler below is registered per connection (io.on("connection")) and
\* runs for a socket id from its connection until its disconnect; the
\* connection itself changes no state of the server.
Connected(s) == s \notin closed

CreateRoom(s, name, codeLength, roomId) ==
  /\ ~faulted
  /\ handler' = "createRoom"
  /\ Connected(s)
  /\ LET orphans == IF roomId \in DOMAIN rooms THEN Leftover(rooms[roomId]) ELSE 0
     IN  /\ stray[roomId] + orphans <= MaxStray
         /\ stray' = [stray EXCEPT ![roomId] = @ + orphans]
  /\ rooms' = Put(rooms, roomId, NewRoom(s, name, codeLength))
  /\ emitted' = [emitted EXCEPT ![roomId] = NoEmitted]
  /\ out' = << [type |-> "roomCreated", socket |-> s, room |-> "", roomId |-> roomId,
                codeLength |-> CodeLengthOf(codeLength)] >>
  /\ UNCHANGED <<closed, faulted>>

JoinRoom(s, name, roomId) ==
  /\ ~faulted
  /\ handler' = "joinRoom"
  /\ Connected(s)
  /\ IF roomId \notin DOMAIN rooms THEN
       /\ out' = << [type |-> "errorMessage", socket |-> s, room |-> "",
                     message |-> "Raum nicht gefunden."] >>
       /\ UNCHANGED rooms
     ELSE
       LET room == rooms[roomId] IN
       IF IsFull(room) THEN
         /\ out' = << [type |-> "errorMessage", socket |-> s, room |-> "",
                       message |-> "Raum ist voll."] >>
         /\ UNCHANGED rooms
       ELSE
         LET players == Put(room.players, s, NewPlayer(name)) IN
         /\ rooms' = [rooms EXCEPT ![roomId].players = players]
         /\ out' = << [type |-> "roomJoined", socket |-> 0, room |-> roomId, roomId |-> roomId,
                       codeLength |-> room.codeLength,
                       players |-> {[socketId |-> x, name |-> players[x].name]
                                      : x \in DOMAIN players}] >>
  /\ UNCHANGED <<stray, closed, emitted, faulted>>

SetSecret(s, roomId, secret) ==
  /\ ~faulted
  /\ handler' = "setSecret"
  /\ Connected(s)
  /\ IF roomId \notin DOMAIN rooms \/ s \notin PlayerIds(rooms[roomId]) THEN
       /\ out' = <<>>
       /\ UNCHANGED <<rooms, emitted>>
     ELSE IF ~WellFormed(secret, rooms[roomId].codeLength) THEN
       /\ out' = <<>>
       /\ UNCHANGED <<rooms, emitted>>
     ELSE
       LET room == rooms[roomId]
           players == [room.players EXCEPT ![s].secret = secret, ![s].ready = TRUE]
           allReady == AllReady(players)
           ready == [type |-> "playerReady", socket |-> 0, room |-> roomId, playerId |-> s,
                     name |-> players[s].name, allReady |-> allReady]
       IN
       IF ShouldStart(allReady, room) THEN
         \E turnOrder \in TurnOrders(DOMAIN players) :
         /\ rooms' = [rooms EXCEPT ![roomId] =
                        StartTurnTimer([room EXCEPT !.players = players,
                                                    !.started = TRUE,
                                                    !.turnOrder = turnOrder])]
         /\ out' = << ready, [type |-> "gameStarted", socket |-> 0, room |-> roomId,
                              roomId |-> roomId, currentTurn |-> turnOrder[1]] >>
         /\ emitted' = [emitted EXCEPT ![roomId].gameStarted = Bump(@)]
       ELSE
         /\ rooms' = [rooms EXCEPT ![roomId].players = players]
         /\ out' = << ready >>
         /\ UNCHANGED emitted
  /\ UNCHANGED <<stray, closed, faulted>>

Guess(s, roomId, value) ==
  /\ ~faulted
  /\ handler' = "guess"
  /\ Connected(s)
  /\ IF roomId \notin DOMAIN rooms \/ ~rooms[roomId].started THEN
       /\ out' = <<>>
       /\ UNCHANGED <<rooms, emitted, faulted>>
     ELSE IF ~WellFormed(value, rooms[roomId].codeLength) THEN
       /\ out' = <<>>
       /\ UNCHANGED <<rooms, emitted, faulted>>
     ELSE IF ~IsFirst(rooms[roomId].turnOrder, s) THEN
       /\ out' = NotYourTurn(s, roomId)
       /\ UNCHANGED <<rooms, emitted, faulted>>
     ELSE
       LET room == rooms[roomId]
           opponentId == room.turnOrder[2]
       IN
       IF opponentId \notin PlayerIds(room) THEN
         \* opponent is undefined: opponent.secret throws a TypeError
         /\ faulted' = TRUE
         /\ out' = <<>>
         /\ UNCHANGED <<rooms, emitted>>
       ELSE
         LET opponent == room.players[opponentId]
             correct == CountCorrect(value, opponent.secret, room.codeLength)
             result == [type |-> "guessResult", socket |-> 0, room |-> roomId, from |-> s,
                        guess |-> value, correct |-> correct]
         IN
         IF correct = room.codeLength THEN
           /\ rooms' = [rooms EXCEPT ![roomId] =
                          ClearTurnTimer([room EXCEPT !.winner = s])]
           /\ out' = << result, [type |-> "gameOver", socket |-> 0, room |-> roomId, winner |-> s,
                                 winnerName |-> room.players[s].name,
                                 loserId |-> opponentId,
                                 loserName |-> opponent.name] >>
           /\ emitted' = [emitted EXCEPT ![roomId].gameOver = Bump(@)]
           /\ UNCHANGED faulted
         ELSE
           /\ rooms' = [rooms EXCEPT ![roomId] =
                          StartTurnTimer([room EXCEPT !.turnOrder = <<opponentId, s>>])]
           /\ out' = << result, [type |-> "turnChanged", socket |-> 0, room |-> roomId,
                                 roomId |-> roomId, currentTurn |-> opponentId] >>
           /\ UNCHANGED <<emitted, faulted>>
  /\ UNCHANGED <<stray, closed>>

\* The skip also schedules a new turn timeout.
AfterSkipRestarted(room) ==
  StartTurnTimer([room EXCEPT !.turnOrder = Swapped(room.turnOrder)])

\* room.turnOrder = [room.turnOrder[1], room.turnOrder[0]]
AfterSkip(room) == [room EXCEPT !.turnOrder = Swapped(room.turnOrder)]

SkipTurn(s, roomId) ==
  /\ ~faulted
  /\ handler' = "skipTurn"
  /\ Connected(s)
  /\ IF roomId \notin DOMAIN rooms \/ ~rooms[roomId].started THEN
       /\ out' = <<>>
       /\ UNCHANGED rooms
     ELSE IF ~IsFirst(rooms[roomId].turnOrder, s) THEN
       /\ out' = <<>>
       /\ UNCHANGED rooms
     ELSE
       LET room == rooms[roomId] IN
       /\ rooms' = [rooms EXCEPT ![roomId] = AfterSkip(room)]
       /\ out' = << [type |-> "turnSkipped", socket |-> 0, room |-> roomId,
                     from |-> room.turnOrder[1], next |-> room.turnOrder[2]] >>
  /\ UNCHANGED <<stray, closed, emitted, faulted>>

\* The disconnect loop acts on every room of the table.
EveryRoomIn(tbl, s) == DOMAIN tbl

\* The rooms of table tbl the disconnect loop acts on: those that hold s.
RoomsOfIn(tbl, s) == {r \in DOMAIN tbl : s \in PlayerIds(tbl[r])}

RoomsOf(s) == RoomsOfIn(rooms, s)

\* The leave also puts the room back into the lobby.
AfterLeaveToLobby(room, s) ==
  [room EXCEPT !.players = Delete(room.players, s), !.started = FALSE]

\* delete room.players[socket.id]
AfterLeave(room, s) == [room EXCEPT !.players = Delete(room.players, s)]

\* The rooms of tbl that the disconnect of s leaves without players.
EmptiedIn(tbl, s) ==
  {r \in RoomsOfIn(tbl, s) : PlayerIds(AfterLeave(tbl[r], s)) = {}}

\* The room table after the disconnect loop has run for s on table tbl: s is
\* deleted from every room that holds it, and a room left without players
\* has its timer cleared and is deleted.
DisconnectIn(tbl, s) ==
  [r \in (DOMAIN tbl) \ EmptiedIn(tbl, s) |->
     IF r \in RoomsOfIn(tbl, s) THEN AfterLeave(tbl[r], s) ELSE tbl[r]]

RoomsAfterDisconnect(s) == DisconnectIn(rooms, s)

\* One opponentLeft per room that held s, in the order of the room table.
RECURSIVE OpponentLeft(_, _)
OpponentLeft(rs, s) ==
  IF rs = {} THEN <<>>
  ELSE LET r == CHOOSE x \in rs : TRUE IN
       << [type |-> "opponentLeft", socket |-> 0, room |-> r, playerId |-> s] >>
         \o OpponentLeft(rs \ {r}, s)

Disconnect(s) ==
  /\ ~faulted
  /\ handler' = "disconnect"
  /\ Connected(s)
  /\ closed' = closed \cup {s}
  /\ rooms' = RoomsAfterDisconnect(s)
  /\ out' = OpponentLeft(RoomsOf(s), s)
  /\ stray' = [r \in RoomIds |->
                IF r \in EmptiedIn(rooms, s)
                THEN stray[r] + Leftover(ClearTurnTimer(AfterLeave(rooms[r], s)))
                ELSE stray[r]]
  /\ emitted' = [r \in RoomIds |->
                  IF r \in DOMAIN rooms' THEN emitted[r] ELSE NoEmitted]
  /\ UNCHANGED faulted

\* The callback returns early without looking at the winner.
CallbackIgnoresWinner(roomId) ==
  \/ roomId \notin DOMAIN rooms
  \/ ~rooms[roomId].started

\* if (!r || !r.started || r.winner) return;
CallbackReturns(roomId) ==
  \/ roomId \notin DOMAIN rooms
  \/ ~rooms[roomId].started
  \/ rooms[roomId].winner # Null

\* The timeout callback of startTurnTimer(roomId), run on the room table.
\* held: the timeout that fires is the one the room's turnTimer holds.
TimeoutCallback(roomId, held) ==
  IF CallbackReturns(roomId)
  THEN
    /\ out' = <<>>
    /\ rooms' = IF held
                THEN [rooms EXCEPT ![roomId].turnTimer = "fired",
                                   ![roomId].armedFor = Null]
                ELSE rooms
  ELSE
    LET r == rooms[roomId] IN
    /\ rooms' = [rooms EXCEPT ![roomId] =
                   StartTurnTimer([r EXCEPT !.turnOrder = Swapped(r.turnOrder)])]
    /\ out' = << [type |-> "turnTimeout", socket |-> 0, room |-> roomId, roomId |-> roomId,
                  expiredPlayerId |-> r.turnOrder[1],
                  nextPlayerId |-> r.turnOrder[2]] >>

\* The timeout held in rooms[roomId].turnTimer fires.
TimerExpiry(roomId) ==
  /\ ~faulted
  /\ handler' = "timeout"
  /\ roomId \in DOMAIN rooms
  /\ rooms[roomId].turnTimer = "pending"
  /\ TimeoutCallback(roomId, TRUE)
  /\ UNCHANGED <<stray, closed, emitted, faulted>>

\* A timeout fires whose handle was lost when createRoom replaced the room.
StrayTimerExpiry(roomId) ==
  /\ ~faulted
  /\ handler' = "timeout"
  /\ stray[roomId] > 0
  /\ stray' = [stray EXCEPT ![roomId] = @ - 1]
  /\ TimeoutCallback(roomId, FALSE)
  /\ UNCHANGED <<closed, emitted, faulted>>

Next ==
  \/ \E s \in Sockets, name \in Names, codeLength \in CodeLengthInputs,
        roomId \in RoomIds : CreateRoom(s, name, codeLength, roomId)
  \/ \E s \in Sockets, name \in Names, roomId \in RoomIds : JoinRoom(s, name, roomId)
  \/ \E s \in Sockets, roomId \in RoomIds, secret \in SecretValues :
        SetSecret(s, roomId, secret)
  \/ \E s \in Sockets, roomId \in RoomIds, value \in GuessValues : Guess(s, roomId, value)
  \/ \E s \in Sockets, roomId \in RoomIds : SkipTurn(s, roomId)
  \/ \E s \in Sockets : Disconnect(s)
  \/ \E roomId \in RoomIds : TimerExpiry(roomId)
  \/ \E roomId \in RoomIds : StrayTimerExpiry(roomId)

Spec == Init /\ [][Next]_vars

\* The shape of the state.
TypeOK ==
  /\ DOMAIN rooms \subseteq RoomIds
  /\ \A r \in DOMAIN rooms :
       LET room == rooms[r] IN
       /\ DOMAIN room = {"players", "codeLength", "started", "turnOrder",
                         "winner", "turnTimer", "armedFor"}
       /\ DOMAIN room.players \subseteq Sockets
       /\ \A x \in DOMAIN room.players :
            /\ room.players[x].name \in Names
            /\ room.players[x].ready \in BOOLEAN
            /\ room.players[x].secret = <<>>
                 \/ WellFormed(room.players[x].secret, room.codeLength)
       /\ room.codeLength \in {CodeLengthOf(c) : c \in CodeLengthInputs}
       /\ room.started \in BOOLEAN
       /\ room.turnOrder \in {<<>>} \cup TurnOrders(Sockets)
       /\ room.winner \in {Null} \cup Sockets
       /\ room.turnTimer \in TimerStates
       /\ room.armedFor \in {Null} \cup Sockets
       /\ (room.armedFor # Null) <=> (room.turnTimer = "pending")
  /\ stray \in [RoomIds -> 0..MaxStray]
  /\ closed \subseteq Sockets
  /\ emitted \in [RoomIds -> [gameStarted : 0..MaxCount, gameOver : 0..MaxCount]]
  /\ faulted \in BOOLEAN
  /\ handler \in {"", "createRoom", "joinRoom", "setSecret", "guess",
                   "skipTurn", "disconnect", "timeout"}

\* ------------------------------------------------------------ properties

\* The events of the last step that were broadcast to room id r.
Broadcast(r) == {out[i] : i \in {j \in 1..Len(out) : out[j].room = r}}
BroadcastNext(r) == {out'[i] : i \in {j \in 1..Len(out') : out'[j].room = r}}

EventTypes(events) == {e.type : e \in events}

\* The step leaves room id r registered and does not replace its room object.
SameRoom(r) ==
  /\ r \in DOMAIN rooms
  /\ r \in DOMAIN rooms'
  /\ "roomCreated" \notin {out'[i].type : i \in 1..Len(out')}

IsActive(r) == r \in DOMAIN rooms /\ Phase(rooms[r]) = "Active"

\* C1: in every Active room turnOrder has exactly two distinct entries and
\* the set of its entries is the set of the room's current player ids.
C1_TurnOrderIsPlayers ==
  \A r \in DOMAIN rooms :
    Phase(rooms[r]) = "Active" =>
      LET t == rooms[r].turnOrder IN
      /\ Len(t) = 2
      /\ t[1] # t[2]
      /\ {t[1], t[2]} = PlayerIds(rooms[r])

\* C2: winner is set exactly once: it leaves null only in a guess step that
\* moves the room to Finished, and once set no step changes its value.
C2_WinnerSetOnce ==
  [][\A r \in RoomIds :
       SameRoom(r) =>
         /\ rooms[r].winner # Null => rooms'[r].winner = rooms[r].winner
         /\ (rooms[r].winner = Null /\ rooms'[r].winner # Null) =>
              /\ Phase(rooms[r]) = "Active"
              /\ handler' = "guess"
              /\ "gameOver" \in EventTypes(BroadcastNext(r))]_vars

\* C3: a registered room holds exactly one pending turn timer while it is
\* Active, and no pending turn timer while it is in Lobby or Finished (the
\* timers of a room are the ones scheduled through its turnTimer field).
C3_OneTimerWhileActive ==
  \A r \in DOMAIN rooms :
    (rooms[r].turnTimer = "pending") <=> (Phase(rooms[r]) = "Active")

\* C4: gameOver is emitted at most once per room, its winner is the
\* participant that is turnOrder[0] at the winning guess, and once gameOver
\* has been emitted no turnChanged and no turnTimeout is emitted for the room.
C4_GameOverOnce ==
  \A r \in DOMAIN rooms :
    /\ emitted[r].gameOver <= 1
    /\ \A e \in Broadcast(r) :
         e.type = "gameOver" => e.winner = rooms[r].turnOrder[1]
    /\ emitted[r].gameOver >= 1 =>
         EventTypes(Broadcast(r)) \cap {"turnChanged", "turnTimeout"} = {}

Rank(phase) == CASE phase = "Lobby" -> 0 [] phase = "Active" -> 1 [] phase = "Finished" -> 2

\* C5: the phase of a room only moves Lobby -> Active -> Finished: no step
\* takes a room to an earlier phase, and none takes a Lobby room to Finished.
C5_PhaseMonotonic ==
  [][\A r \in RoomIds :
       SameRoom(r) =>
         LET before == Rank(Phase(rooms[r]))
             after == Rank(Phase(rooms'[r]))
         IN  before <= after /\ after <= before + 1]_vars

\* C5 witness: a step has acted on a Finished room (a later guess, a skip or
\* a disconnect) and the room is still Finished.
C5_Witness ==
  \E r \in DOMAIN rooms :
    /\ Phase(rooms[r]) = "Finished"
    /\ EventTypes(Broadcast(r)) \cap {"turnChanged", "turnSkipped", "opponentLeft"} # {}

\* C6: a guess sent to a room that is in Lobby or Finished changes no field
\* of the room and emits no notification, for every caller and value.
C6_GuessOutsideActiveIgnored ==
  [][\A s \in Sockets, r \in RoomIds, value \in GuessValues :
       (/\ r \in DOMAIN rooms
        /\ Phase(rooms[r]) # "Active"
        /\ handler' = "guess"
        /\ Guess(s, r, value))
       => (rooms' = rooms /\ out' = <<>>)]_vars

\* The errorMessage of a guess out of turn, sent to socket s only.
NotYourTurnError(s) ==
  << [type |-> "errorMessage", socket |-> s, room |-> "",
      message |-> "Du bist nicht am Zug."] >>

\* C7 as stated: in an Active room every guess whose caller is not
\* turnOrder[0] is answered with an errorMessage to the caller only and
\* changes nothing, whatever the value is.
C7_WrongTurnAlwaysError ==
  [][\A s \in Sockets, r \in RoomIds, value \in GuessValues :
       (/\ IsActive(r)
        /\ ~IsFirst(rooms[r].turnOrder, s)
        /\ handler' = "guess"
        /\ Guess(s, r, value))
       => (rooms' = rooms /\ out' = NotYourTurnError(s))]_vars

\* C7 as amended: in an Active room every well-formed guess whose caller is
\* not turnOrder[0] is answered with an errorMessage to the caller only and
\* changes nothing; a malformed guess is dropped silently (no notification,
\* no change) whoever the caller is, turnOrder[0] or not.
C7_WellFormedWrongTurnError ==
  [][\A s \in Sockets, r \in RoomIds, value \in GuessValues :
       (IsActive(r) /\ handler' = "guess" /\ Guess(s, r, value)) =>
         /\ ~WellFormed(value, rooms[r].codeLength) =>
              (rooms' = rooms /\ emitted' = emitted /\ out' = <<>>)
         /\ (WellFormed(value, rooms[r].codeLength)
               /\ ~IsFirst(rooms[r].turnOrder, s)) =>
              (rooms' = rooms /\ emitted' = emitted /\ out' = NotYourTurnError(s))]_vars

\* C7 witness: a guess out of turn has just been rejected in an Active room.
C7_Witness ==
  /\ handler = "guess"
  /\ \E r \in DOMAIN rooms : Phase(rooms[r]) = "Active"
  /\ \E s \in Sockets : Connected(s) /\ out = NotYourTurnError(s)

\* Number of positions where the guess and the secret hold the same digit.
Matches(value, secret) ==
  Cardinality({i \in 1..Len(value) : i <= Len(secret) /\ value[i] = secret[i]})

\* C8: every well-formed guess by turnOrder[0] in an Active room emits a
\* guessResult whose correct is the number of positions where the guess and
\* the secret of turnOrder[1] agree; the room becomes Finished with winner =
\* guesser exactly when the count is codeLength, and otherwise turnOrder is
\* swapped and the timer restarted.
C8_GuessScored ==
  [][\A s \in Sockets, r \in RoomIds, value \in GuessValues :
       (/\ IsActive(r)
        /\ IsFirst(rooms[r].turnOrder, s)
        /\ WellFormed(value, rooms[r].codeLength)
        /\ handler' = "guess"
        /\ Guess(s, r, value))
       => LET room == rooms[r]
              opp == room.turnOrder[2]
          IN  /\ Len(out') >= 1
              /\ out'[1].type = "guessResult"
              /\ opp \in PlayerIds(room)
              /\ out'[1].correct = Matches(value, room.players[opp].secret)
              /\ IF out'[1].correct = room.codeLength
                 THEN /\ value = room.players[opp].secret
                      /\ Phase(rooms'[r]) = "Finished"
                      /\ rooms'[r].winner = s
                 ELSE /\ Phase(rooms'[r]) = "Active"
                      /\ rooms'[r].turnOrder = <<opp, s>>
                      /\ rooms'[r].turnTimer = "pending"]_vars

\* C9: skipTurn swaps turnOrder and emits turnSkipped when the room is
\* Active and the caller is turnOrder[0]; in every other case it changes
\* nothing and emits nothing.
C9_SkipOnlyActiveFirst ==
  [][\A s \in Sockets, r \in RoomIds :
       (handler' = "skipTurn" /\ SkipTurn(s, r)) =>
         IF IsActive(r) /\ IsFirst(rooms[r].turnOrder, s)
         THEN /\ rooms'[r].turnOrder = Swapped(rooms[r].turnOrder)
              /\ EventTypes(BroadcastNext(r)) = {"turnSkipped"}
         ELSE rooms' = rooms /\ out' = <<>>]_vars

\* C10: a room moves from Lobby to Active exactly in the setSecret step after
\* which it holds two players that are both ready; gameStarted is emitted in
\* that step and in no other, at most once per room, with currentTurn =
\* turnOrder[0], one of the two player ids; a setSecret in a started room
\* emits no gameStarted and leaves turnOrder as it is.
C10_StartsOnceWhenBothReady ==
  [][\A r \in RoomIds :
       SameRoom(r) =>
         LET starts == ~rooms[r].started /\ rooms'[r].started
             isSetSecret == /\ handler' = "setSecret"
                            /\ \E s \in Sockets, secret \in SecretValues :
                                 SetSecret(s, r, secret)
             started == {e \in BroadcastNext(r) : e.type = "gameStarted"}
         IN  /\ starts => isSetSecret
             /\ starts <=> (~rooms[r].started /\ isSetSecret
                              /\ AllReady(rooms'[r].players))
             /\ starts <=> (started # {})
             /\ \A e \in started :
                  /\ e.currentTurn = rooms'[r].turnOrder[1]
                  /\ e.currentTurn \in PlayerIds(rooms'[r])
                  /\ Cardinality(PlayerIds(rooms'[r])) = 2
                  /\ Len(out') = 2 /\ out'[2] = e
             /\ emitted'[r].gameStarted = (IF rooms'[r].started THEN 1 ELSE 0)
             /\ rooms[r].started => rooms'[r].turnOrder \in
                  {rooms[r].turnOrder, Swapped(rooms[r].turnOrder)}
             /\ (rooms[r].started /\ isSetSecret) =>
                  rooms'[r].turnOrder = rooms[r].turnOrder]_vars

\* C10 witness: a setSecret has just been accepted in a started room whose
\* two players are ready, and it emitted playerReady alone.
C10_Witness ==
  \E r \in DOMAIN rooms :
    /\ rooms[r].started
    /\ emitted[r].gameStarted = 1
    /\ handler = "setSecret"
    /\ Len(out) = 1
    /\ out[1].type = "playerReady"
    /\ out[1].allReady

\* The step replaces the room object registered under r by a new one.
Replaced(r) ==
  /\ r \in DOMAIN rooms
  /\ \E i \in 1..Len(out') : out'[i].type = "roomCreated" /\ out'[i].roomId = r

\* The step takes the room object registered under r out of the room table.
Removed(r) == r \in DOMAIN rooms /\ (r \notin DOMAIN rooms' \/ Replaced(r))

\* C11: a room leaves the room table exactly in the disconnect step that
\* takes its last player out, in any phase; no timeout is pending for an id
\* that is not registered; a disconnect that leaves a player keeps the room;
\* each disconnect emits exactly one opponentLeft per room that held the
\* socket and nothing else.
C11_RemovedOnLastLeave ==
  [][/\ \A r \in RoomIds :
          Removed(r) <=> (/\ r \in DOMAIN rooms
                          /\ handler' = "disconnect"
                          /\ \E s \in Sockets :
                               Disconnect(s) /\ PlayerIds(rooms[r]) = {s})
     /\ \A r \in RoomIds : r \notin DOMAIN rooms' => stray'[r] = 0
     /\ \A s \in Sockets :
          (handler' = "disconnect" /\ Disconnect(s)) =>
            /\ Len(out') = Cardinality(RoomsOf(s))
            /\ \A r \in RoomsOf(s) :
                 BroadcastNext(r) =
                   {[type |-> "opponentLeft", socket |-> 0, room |-> r,
                     playerId |-> s]}]_vars

\* The errorMessage of joinRoom, sent to socket s only.
JoinError(s, message) ==
  << [type |-> "errorMessage", socket |-> s, room |-> "", message |-> message] >>

\* C12: every room holds at most two players after every step. A joinRoom
\* for an id that is not registered, and a joinRoom for a room that holds two
\* players, is answered with an errorMessage to the caller only and changes
\* nothing; every other joinRoom makes the caller a player of the room that
\* is not ready and has an empty secret, and changes nothing else.
C12_JoinBounded ==
  [][/\ \A r \in DOMAIN rooms' : Cardinality(PlayerIds(rooms'[r])) <= 2
     /\ \A s \in Sockets, name \in Names, r \in RoomIds :
          (handler' = "joinRoom" /\ JoinRoom(s, name, r)) =>
            IF r \notin DOMAIN rooms THEN
              /\ out' = JoinError(s, "Raum nicht gefunden.")
              /\ rooms' = rooms /\ stray' = stray
            ELSE IF Cardinality(PlayerIds(rooms[r])) = 2 THEN
              /\ out' = JoinError(s, "Raum ist voll.")
              /\ rooms' = rooms /\ stray' = stray
            ELSE
              /\ rooms' = [rooms EXCEPT ![r].players =
                             Put(@, s, [name |-> name, secret |-> <<>>,
                                        ready |-> FALSE])]
              /\ EventTypes(BroadcastNext(r)) = {"roomJoined"}
              /\ Len(out') = 1
              /\ stray' = stray]_vars

\* C12 witness: a joinRoom has just been refused because the room holds two
\* players.
C12_Witness ==
  \E r \in DOMAIN rooms, s \in Sockets :
    /\ handler = "joinRoom"
    /\ Cardinality(PlayerIds(rooms[r])) = 2
    /\ s \notin PlayerIds(rooms[r])
    /\ out = JoinError(s, "Raum ist voll.")

\* The last step was a timer expiry that emitted turnTimeout for room r.
TimedOut(r) == handler = "timeout" /\ "turnTimeout" \in EventTypes(Broadcast(r))

\* Timeouts fire when they are due: the event loop is never blocked, so a
\* timeout that stays pending is eventually run.
FairSpec ==
  /\ Spec
  /\ \A r \in RoomIds : WF_vars(TimerExpiry(r)) /\ WF_vars(StrayTimerExpiry(r))

\* C13: when room r stays Active for ever and from some point on no guess and
\* no disconnect is handled, turnTimeout is emitted for r again and again and
\* each of the two ids in turnOrder is turnOrder[0] again and again; and no
\* timer expiry changes the winner of a room or emits gameOver.
C13_TimeoutsKeepAlternating ==
  /\ \A r \in RoomIds :
       <>[](IsActive(r) /\ handler \notin {"guess", "disconnect"})
         => /\ []<>TimedOut(r)
            /\ \A s \in Sockets :
                 []<>(IsActive(r) /\ s \in {rooms[r].turnOrder[1], rooms[r].turnOrder[2]}
                        => rooms[r].turnOrder[1] = s)
  /\ [][handler' = "timeout" =>
          /\ \A r \in DOMAIN rooms \cap DOMAIN rooms' :
               rooms'[r].winner = rooms[r].winner
          /\ DOMAIN rooms' = DOMAIN rooms
          /\ \A i \in 1..Len(out') : out'[i].type # "gameOver"]_vars

\* C13 witness: a timer expiry has just forfeited a turn in an Active room
\* and the room is still Active with its next timeout pending.
C13_Witness ==
  \E r \in RoomIds :
    /\ IsActive(r)
    /\ TimedOut(r)
    /\ rooms[r].turnTimer = "pending"

\* The events the disconnect handler emits when it runs for s on table tbl.
DisconnectEvents(tbl, s) == OpponentLeft(RoomsOfIn(tbl, s), s)

\* C14: clearing the timer of a room twice leaves the room as clearing it
\* once does; and running the disconnect handler for a socket on the room
\* table that its disconnect has left changes no room, removes no room and
\* emits nothing.
C14_ClearAndLeaveIdempotent ==
  /\ \A r \in DOMAIN rooms :
       ClearTurnTimer(ClearTurnTimer(rooms[r])) = ClearTurnTimer(rooms[r])
  /\ \A s \in Sockets :
       LET left == DisconnectIn(rooms, s) IN
       /\ DisconnectIn(left, s) = left
       /\ DisconnectEvents(left, s) = <<>>
  /\ \A s \in closed :
       /\ DisconnectIn(rooms, s) = rooms
       /\ DisconnectEvents(rooms, s) = <<>>

\* C14 witness: the disconnect of a player has just been handled, the room
\* is still registered with its timer cleared, and it holds another player.
C14_Witness ==
  \E r \in DOMAIN rooms, s \in closed :
    /\ handler = "disconnect"
    /\ Broadcast(r) = {[type |-> "opponentLeft", socket |-> 0, room |-> r,
                        playerId |-> s]}
    /\ rooms[r].turnTimer = "null"
    /\ rooms[r].winner # Null
    /\ PlayerIds(rooms[r]) # {}

\* The timeouts pending for room id r: the one the room holds and the ones
\* whose handle was lost.
PendingFor(r) ==
  stray[r] + (IF r \in DOMAIN rooms THEN Leftover(rooms[r]) ELSE 0)

PendingForNext(r) ==
  stray'[r] + (IF r \in DOMAIN rooms' THEN Leftover(rooms'[r]) ELSE 0)

\* The room without the state of its timer handle.
Untimed(room) == [room EXCEPT !.turnTimer = "null", !.armedFor = Null]

\* C15: a timer expiry for a room id that is not registered or whose room is
\* in Lobby or Finished emits nothing, changes no field of any room and
\* schedules no timeout; a timer expiry for an Active room swaps turnOrder,
\* emits exactly one turnTimeout whose expiredPlayerId is the old
\* turnOrder[0] and whose nextPlayerId is the new turnOrder[0], changes
\* nothing else, and leaves the room holding one newly scheduled timeout.
C15_ExpiryByPhase ==
  [][\A r \in RoomIds :
       (handler' = "timeout" /\ (TimerExpiry(r) \/ StrayTimerExpiry(r))) =>
         /\ DOMAIN rooms' = DOMAIN rooms
         /\ \A q \in DOMAIN rooms \ {r} : rooms'[q] = rooms[q]
         /\ IF IsActive(r) THEN
              /\ rooms'[r].turnOrder =
                   <<rooms[r].turnOrder[2], rooms[r].turnOrder[1]>>
              /\ out' = << [type |-> "turnTimeout", socket |-> 0, room |-> r,
                            roomId |-> r,
                            expiredPlayerId |-> rooms[r].turnOrder[1],
                            nextPlayerId |-> rooms'[r].turnOrder[1]] >>
              /\ Untimed(rooms'[r]) =
                   [Untimed(rooms[r]) EXCEPT !.turnOrder = rooms'[r].turnOrder]
              /\ rooms'[r].turnTimer = "pending"
              /\ rooms'[r].armedFor = rooms'[r].turnOrder[1]
              /\ PendingForNext(r) =
                   PendingFor(r) - (IF stray'[r] < stray[r] THEN 1 ELSE 0)
            ELSE
              /\ out' = <<>>
              /\ r \in DOMAIN rooms => Untimed(rooms'[r]) = Untimed(rooms[r])
              /\ PendingForNext(r) = PendingFor(r) - 1]_vars

\* C15 witness: a timer expiry has just been handled for a Finished room: it
\* emitted nothing and the room holds no pending timeout.
C15_Witness ==
  \E r \in DOMAIN rooms :
    /\ Phase(rooms[r]) = "Finished"
    /\ handler = "timeout"
    /\ out = <<>>
    /\ rooms[r].turnTimer # "pending"

\* The turnSkipped events the last step emitted for room r.
Skipped(r) == {e \in Broadcast(r) : e.type = "turnSkipped"}

\* C16: a skipTurn that is accepted changes turnOrder and nothing else: the
\* timeout the room holds is the one that was scheduled before the skip, no
\* timeout is cancelled or scheduled, and players, secrets, winner and
\* codeLength stay as they were; a timer expiry of the room that follows the
\* skip while the room is Active forfeits the turn of the player who
\* received it.
C16_SkipLeavesTimer ==
  [][\A r \in RoomIds :
       /\ \A s \in Sockets :
            (/\ handler' = "skipTurn"
             /\ SkipTurn(s, r)
             /\ out' # <<>>)
            => /\ rooms' = [rooms EXCEPT ![r].turnOrder =
                              <<rooms[r].turnOrder[2], rooms[r].turnOrder[1]>>]
               /\ rooms'[r].turnTimer = rooms[r].turnTimer
               /\ rooms'[r].armedFor = rooms[r].armedFor
               /\ rooms'[r].players = rooms[r].players
               /\ rooms'[r].winner = rooms[r].winner
               /\ rooms'[r].codeLength = rooms[r].codeLength
               /\ stray' = stray
               /\ IsActive(r) => rooms'[r].turnTimer = "pending"
       /\ (/\ handler = "skipTurn"
           /\ Skipped(r) # {}
           /\ IsActive(r)
           /\ handler' = "timeout"
           /\ (TimerExpiry(r) \/ StrayTimerExpiry(r)))
          => \A e \in Skipped(r) :
               \E i \in 1..Len(out') :
                 /\ out'[i].type = "turnTimeout"
                 /\ out'[i].expiredPlayerId = e.next]_vars

\* C16 witness: a skipTurn has just been accepted in an Active room, and the
\* pending timeout is the one scheduled when the skipping player got the turn.
C16_Witness ==
  \E r \in RoomIds :
    /\ IsActive(r)
    /\ handler = "skipTurn"
    /\ \E e \in Skipped(r) :
         /\ rooms[r].turnOrder[1] = e.next
         /\ rooms[r].armedFor = e.from
    /\ rooms[r].turnTimer = "pending"

\* C17: no handler faults: a guess that is scored always finds the player
\* named by turnOrder[1] in the room, so the scoring loop has a secret to
\* read and the handler never throws.
C17_NoHandlerFaults == ~faulted

\* C18: once a room has started, the secret of each of its players stays as
\* it is for as long as the player is in the room: no step, and no setSecret
\* in particular, replaces it.
C18_SecretFixedOnceStarted ==
  [][\A r \in RoomIds :
       (SameRoom(r) /\ rooms[r].started) =>
         \A s \in PlayerIds(rooms[r]) \cap PlayerIds(rooms'[r]) :
           rooms'[r].players[s].secret = rooms[r].players[s].secret]_vars

\* C19: every player of a started room is one of the two ids in turnOrder:
\* no joinRoom adds a participant to a room that has started, also after one
\* of the two has disconnected.
C19_StartedPlayersInTurnOrder ==
  \A r \in DOMAIN rooms :
    rooms[r].started =>
      PlayerIds(rooms[r]) \subseteq {rooms[r].turnOrder[1], rooms[r].turnOrder[2]}

\* C20: a player who is ready stays ready with the same secret for as long
\* as the player is in the room, in particular across a joinRoom the player
\* sends for the room; and after every step ready is true exactly when the
\* secret is not empty.
C20_CommittedStaysCommitted ==
  [][/\ \A r \in RoomIds :
          SameRoom(r) =>
            \A s \in PlayerIds(rooms[r]) \cap PlayerIds(rooms'[r]) :
              rooms[r].players[s].ready =>
                /\ rooms'[r].players[s].ready
                /\ rooms'[r].players[s].secret = rooms[r].players[s].secret
     /\ \A r \in DOMAIN rooms' : \A s \in PlayerIds(rooms'[r]) :
          rooms'[r].players[s].ready <=> (rooms'[r].players[s].secret # <<>>)]_vars
====
